---- MODULE Spec2Model ----
(***************************************************************************)
(* Model of refresh.py: the OSM fetch with endpoint failover               *)
(* (get_data_osm), the marker writer (write_data) with its icon and        *)
(* category classifiers, and the promotion of the temporary data file      *)
(* (check_data), as sequenced by main.                                     *)
(*                                                                         *)
(* Strings the code splits or escapes are sequences of tokens, with the    *)
(* separators ";" and ":" and the HTML special characters as tokens of     *)
(* their own.  A value that may be None is a sequence of length 0 or 1.    *)
(***************************************************************************)
EXTENDS Integers, Sequences, FiniteSets, TLC

VARIABLES pc, server, result, log, clock, files, files0, pre, pos,
          lat, lon, counts, tags, icon, category, err

vars == <<pc, server, result, log, clock, files, files0, pre, pos,
          lat, lon, counts, tags, icon, category, err>>

(* ------------------------------ bounds ------------------------------ *)

\* longest "elements" array of a response in the pipeline specification
MaxElems == 2

\* largest byte size of a temporary file handed to check_data on its own
MaxSize == 260

(* ------------------------- python primitives ------------------------ *)

None == <<>>

Some(x) == <<x>>

\* str.split(sep)[0]: the tokens before the first separator token
RECURSIVE SplitHead(_, _)
SplitHead(s, sep) ==
    IF s = <<>> THEN <<>>
    ELSE IF Head(s) = sep THEN <<>>
    ELSE <<Head(s)>> \o SplitHead(Tail(s), sep)

\* what follows the first separator token (empty when there is none)
RECURSIVE SplitRest(_, _)
SplitRest(s, sep) ==
    IF s = <<>> THEN <<>>
    ELSE IF Head(s) = sep THEN Tail(s)
    ELSE SplitRest(Tail(s), sep)

HasSep(s, sep) == \E i \in 1..Len(s) : s[i] = sep

\* str.split(sep): the list of the parts between separator tokens
RECURSIVE Split(_, _)
Split(s, sep) ==
    IF HasSep(s, sep)
    THEN <<SplitHead(s, sep)>> \o Split(SplitRest(s, sep), sep)
    ELSE <<s>>

\* html.escape(s) with quote=True; an entity ends with a ";" character
EscapeToken(c) ==
    CASE c = "&"  -> <<"&amp", ";">>
      [] c = "<"  -> <<"&lt", ";">>
      [] c = ">"  -> <<"&gt", ";">>
      [] c = "\"" -> <<"&quot", ";">>
      [] c = "'"  -> <<"&#x27", ";">>
      [] OTHER    -> <<c>>

RECURSIVE HtmlEscape(_)
HtmlEscape(s) ==
    IF s = <<>> THEN <<>> ELSE EscapeToken(Head(s)) \o HtmlEscape(Tail(s))

\* tags.get(k): None when the key is absent
TagGet(t, k) == t[k]

\* tags.get(k, ''): the empty string when the key is absent
TagGetStr(t, k) == IF t[k] = None THEN <<>> ELSE t[k][1]

\* k in tags
TagHas(t, k) == t[k] # None

(* --------------------------- icon mapping --------------------------- *)

ICON_MAPPING == <<
    [kv |-> <<"cuisine", ":", "pizza">>, icon |-> <<"maki_restaurant-pizza", "U1F355">>],
    [kv |-> <<"amenity", ":", "bar">>, icon |-> <<"bar", "U1F378">>],
    [kv |-> <<"amenity", ":", "bbq">>, icon |-> <<"bbq", "U1F374">>],
    [kv |-> <<"amenity", ":", "cafe">>, icon |-> <<"cafe", "U2615">>],
    [kv |-> <<"amenity", ":", "cinema">>, icon |-> <<"cinema", "U1F3A6">>],
    [kv |-> <<"amenity", ":", "college">>, icon |-> <<"maki_college", "U1F393">>],
    [kv |-> <<"amenity", ":", "fast_food">>, icon |-> <<"fast_food", "U1F354">>],
    [kv |-> <<"amenity", ":", "food_court">>, icon |-> <<"restaurant", "U1F37D+UFE0F">>],
    [kv |-> <<"amenity", ":", "fuel">>, icon |-> <<"fuel", "U26FD">>],
    [kv |-> <<"amenity", ":", "hospital">>, icon |-> <<"hospital", "U1F3E5">>],
    [kv |-> <<"amenity", ":", "ice_cream">>, icon |-> <<"ice_cream", "U1F368">>],
    [kv |-> <<"amenity", ":", "kindergarten">>, icon |-> <<"playground", "U1F9D2">>],
    [kv |-> <<"amenity", ":", "pharmacy">>, icon |-> <<"pharmacy", "U1F48A">>],
    [kv |-> <<"amenity", ":", "place_of_worship">>, icon |-> <<"place_of_worship", "U1F6D0">>],
    [kv |-> <<"amenity", ":", "pub">>, icon |-> <<"pub", "U1F37B">>],
    [kv |-> <<"amenity", ":", "restaurant">>, icon |-> <<"restaurant", "U1F37D+UFE0F">>],
    [kv |-> <<"amenity", ":", "school">>, icon |-> <<"maki_school", "U1F3EB">>],
    [kv |-> <<"amenity", ":", "shelter">>, icon |-> <<"shelter", "U2602+UFE0F">>],
    [kv |-> <<"amenity", ":", "swimming_pool">>, icon |-> <<"maki_swimming", "U1F3CA+U200D+U2640+UFE0F">>],
    [kv |-> <<"amenity", ":", "theatre">>, icon |-> <<"theatre", "U1F3AD">>],
    [kv |-> <<"amenity", ":", "university">>, icon |-> <<"maki_college", "U1F393">>],
    [kv |-> <<"amenity", ":", "vending_machine">>, icon |-> <<"maki_shop", "U1F6D2">>],
    [kv |-> <<"historic", ":", "memorial">>, icon |-> <<"monument", "U1F5FF">>],
    [kv |-> <<"leisure", ":", "golf_course">>, icon |-> <<"golf", "U1F3CC+UFE0F">>],
    [kv |-> <<"leisure", ":", "pitch">>, icon |-> <<"maki_pitch", "U1F3C3">>],
    [kv |-> <<"leisure", ":", "sports_centre">>, icon |-> <<"sports", "U1F93C">>],
    [kv |-> <<"leisure", ":", "stadium">>, icon |-> <<"maki_stadium", "U1F3DF+UFE0F">>],
    [kv |-> <<"shop", ":", "alcohol">>, icon |-> <<"alcohol", "U1F377">>],
    [kv |-> <<"shop", ":", "bakery">>, icon |-> <<"bakery", "U1F96F">>],
    [kv |-> <<"shop", ":", "beauty">>, icon |-> <<"beauty", "U1F487">>],
    [kv |-> <<"shop", ":", "bicycle">>, icon |-> <<"bicycle", "U1F6B2">>],
    [kv |-> <<"shop", ":", "books">>, icon |-> <<"library", "U1F4DA">>],
    [kv |-> <<"shop", ":", "butcher">>, icon |-> <<"butcher", "U1F52A">>],
    [kv |-> <<"shop", ":", "clothes">>, icon |-> <<"clothes", "U1F45A">>],
    [kv |-> <<"shop", ":", "confectionery">>, icon |-> <<"confectionery", "U1F36C">>],
    [kv |-> <<"shop", ":", "convenience">>, icon |-> <<"convenience", "U1F3EA">>],
    [kv |-> <<"shop", ":", "department_store">>, icon |-> <<"department_store", "U1F3EC">>],
    [kv |-> <<"shop", ":", "doityourself">>, icon |-> <<"diy", "U1F6E0+UFE0F">>],
    [kv |-> <<"shop", ":", "fishmonger">>, icon |-> <<"maki_shop", "U1F41F">>],
    [kv |-> <<"shop", ":", "garden_centre">>, icon |-> <<"garden-centre", "U1F3E1">>],
    [kv |-> <<"shop", ":", "general">>, icon |-> <<"maki_shop", "U1F6D2">>],
    [kv |-> <<"shop", ":", "gift">>, icon |-> <<"gift", "U1F381">>],
    [kv |-> <<"shop", ":", "greengrocer">>, icon |-> <<"greengrocer", "U1F34F">>],
    [kv |-> <<"shop", ":", "hairdresser">>, icon |-> <<"hairdresser", "U1F487">>],
    [kv |-> <<"shop", ":", "kiosk">>, icon |-> <<"maki_shop", "U1F6D2">>],
    [kv |-> <<"shop", ":", "music">>, icon |-> <<"music", "U1F3B6">>],
    [kv |-> <<"shop", ":", "supermarket">>, icon |-> <<"supermarket", "U1F3EA">>],
    [kv |-> <<"shop", ":", "wine">>, icon |-> <<"alcohol", "U1F377">>],
    [kv |-> <<"tourism", ":", "guest_house">>, icon |-> <<"guest_house", "U1F3E0">>],
    [kv |-> <<"tourism", ":", "museum">>, icon |-> <<"museum", "U1F5BC+UFE0F">>]
>>

DefaultIcon == <<"maki_star-stroked", "">>

\* the loop of determine_icon from rule i on; a dict iterates in insertion order.
\* A rule's attribute name is one token, the key of the tags mapping.
RECURSIVE IconFrom(_, _)
IconFrom(t, i) ==
    IF i > Len(ICON_MAPPING) THEN DefaultIcon
    ELSE LET kv  == Split(ICON_MAPPING[i].kv, ":")
             k   == kv[1][1]
             v   == kv[2]
             val == TagGet(t, k)
         IN  IF val = None \/ val[1] = <<>>
             THEN IconFrom(t, i + 1)
             ELSE IF Split(val[1], ";")[1] = v
                  THEN ICON_MAPPING[i].icon
                  ELSE IconFrom(t, i + 1)

\* the loop without its break: the last matching rule wins
RECURSIVE IconNoBreak(_, _, _)
IconNoBreak(t, i, found) ==
    IF i > Len(ICON_MAPPING) THEN found
    ELSE LET kv  == Split(ICON_MAPPING[i].kv, ":")
             val == TagGet(t, kv[1][1])
         IN  IF val # None /\ val[1] # <<>> /\ Split(val[1], ";")[1] = kv[2]
             THEN IconNoBreak(t, i + 1, ICON_MAPPING[i].icon)
             ELSE IconNoBreak(t, i + 1, found)

determine_icon_no_break(t) == IconNoBreak(t, 1, DefaultIcon)

determine_icon(t) == IconFrom(t, 1)

(* ----------------------------- categories --------------------------- *)

Categories ==
    {"vegan_only", "vegetarian_only", "vegan_friendly", "vegan_limited",
     "vegetarian_friendly"}

ZeroCounts == [c \in Categories |-> 0]

\* the chain with its second and third branch exchanged
CategoryOfYesFirst(t) ==
    IF TagGetStr(t, "diet:vegan") = <<"only">> THEN "vegan_only"
    ELSE IF TagGetStr(t, "diet:vegan") = <<"yes">> THEN "vegan_friendly"
    ELSE IF TagGetStr(t, "diet:vegetarian") = <<"only">>
            /\ TagGetStr(t, "diet:vegan") = <<"yes">> THEN "vegetarian_only"
    ELSE IF TagGetStr(t, "diet:vegan") = <<"limited">> THEN "vegan_limited"
    ELSE "vegetarian_friendly"

\* the branch of the if/elif chain a tag set takes
CategoryOf(t) ==
    IF TagGetStr(t, "diet:vegan") = <<"only">> THEN "vegan_only"
    ELSE IF TagGetStr(t, "diet:vegetarian") = <<"only">>
            /\ TagGetStr(t, "diet:vegan") = <<"yes">> THEN "vegetarian_only"
    ELSE IF TagGetStr(t, "diet:vegan") = <<"yes">> THEN "vegan_friendly"
    ELSE IF TagGetStr(t, "diet:vegan") = <<"limited">> THEN "vegan_limited"
    ELSE "vegetarian_friendly"

\* the counter a branch increments: n_<category> += 1
CountOf(n, cat) == [n EXCEPT ![cat] = @ + 1]

(* ------------------------------ files ------------------------------- *)

\* VEGGIEMAP_FILE, VEGGIEMAP_OLDFILE, VEGGIEMAP_TEMPFILE
Paths == {"active", "old", "temp"}

\* a path with no file
Absent ==
    [exists |-> FALSE, id |-> "none", markers |-> <<>>, numbers |-> ZeroCounts,
     complete |-> FALSE, size |-> 0]

\* a file left by an earlier run; id stands for its content
Artifact(id, size, complete) ==
    [exists |-> TRUE, id |-> id, markers |-> <<>>, numbers |-> ZeroCounts,
     complete |-> complete, size |-> size]

\* os.path.isfile(path)
IsFile(fs, path) == fs[path].exists

\* os.path.getsize(path)
GetSize(fs, path) == fs[path].size

MinSize == 250

\* the size test of check_data
SizeOKInclusive(n) == n >= MinSize

SizeOK(n) == n > MinSize

\* os.rename(src, dst) on an existing src: dst is replaced, src disappears
OsRename(fs, src, dst) == [fs EXCEPT ![dst] = fs[src], ![src] = Absent]

(* --------------------------- byte lengths --------------------------- *)

\* '// Created: %s\n' with str(datetime.datetime.now()), 26 characters
CreatedLen == 39

\* 'function veggiemap_populate(markers) {\n'
FunctionLen == 39

\* '}\n'
CloseLen == 2

\* the 'let numbers = {...};\n' statement without its five numbers
NumbersFixedLen == 119

\* the L.marker(...) statement without its seven substitutions
MarkerFixedLen == 68

\* the popup header without its three substitutions
PopupFixedLen == 76

RECURSIVE Digits(_)
Digits(n) == IF n < 10 THEN 1 ELSE 1 + Digits(n \div 10)

NumbersLen(n) ==
    NumbersFixedLen + Digits(n["vegan_only"]) + Digits(n["vegetarian_only"])
      + Digits(n["vegan_friendly"]) + Digits(n["vegan_limited"])
      + Digits(n["vegetarian_friendly"])

CategoryLen(cat) ==
    CASE cat = "vegan_only"      -> 10
      [] cat = "vegetarian_only" -> 15
      [] cat = "vegan_friendly"  -> 14
      [] cat = "vegan_limited"   -> 13
      [] OTHER                   -> 19

\* bytes of a marker statement: its fixed text and the category, written twice;
\* coordinates, title, icon id and the popup sections only add to it
MarkerLen(m) == MarkerFixedLen + PopupFixedLen + 2 * CategoryLen(m.category)

(* ------------------------------ fetch ------------------------------- *)

SERVERS == <<
    "https://lz4.overpass-api.de/api/interpreter",
    "https://overpass.kumi.systems/api/interpreter",
    "https://z.overpass-api.de/api/interpreter",
    "http://api.openstreetmap.fr/api/interpreter",
    "http://dev.overpass-api.de/api_drolbr/interpreter",
    "http://overpass-api.de/api/interpreter",
    "http://overpass.openstreetmap.fr/api/interpreter"
>>

NumServers == Len(SERVERS)

\* the condition of the while loop
LoopCondNoStop(s, r) == s < NumServers

LoopCond(s, r) == s < NumServers /\ r = None

\* the time.sleep of each status branch
CooldownNone(status) == 0

Cooldown(status) ==
    CASE status = 400 -> 5
      [] status = 429 -> 60
      [] status = 504 -> 600
      [] OTHER        -> 0

\* json.loads(r.data.decode("utf-8")): the document a response body carries
JsonLoads(body) == body.json

\* one pass of the while loop: the request, the status branch, server += 1
Request(statuses, docs) ==
    /\ pc = "fetch"
    /\ LoopCond(server, result)
    /\ \E status \in statuses :
         \E doc \in (IF status = 200 THEN docs ELSE {[elements |-> <<>>]}) :
           LET r == [status |-> status, data |-> [json |-> doc]]
           IN  /\ log' = Append(log, [url |-> SERVERS[server + 1], index |-> server,
                                      at |-> clock, status |-> r.status,
                                      data |-> r.data])
               /\ result' = IF r.status = 200 THEN Some(JsonLoads(r.data)) ELSE result
               /\ clock' = clock + Cooldown(r.status)
    /\ server' = server + 1
    /\ UNCHANGED <<pc, files, files0, pre, pos, lat, lon, counts, tags, icon,
                   category, err>>

\* the loop ends and get_data_osm returns result
Return ==
    /\ pc = "fetch"
    /\ ~LoopCond(server, result)
    /\ pc' = "fetched"
    /\ UNCHANGED <<server, result, log, clock, files, files0, pre, pos, lat, lon,
                   counts, tags, icon, category, err>>

(* ------------------------------- main ------------------------------- *)

\* the test of main on osm_data
MainWritesAlways(r) == TRUE

MainWrites(r) == r # None

\* main after get_data_osm: write_data and check_data, or the message
MainBranch ==
    /\ pc = "fetched"
    /\ pc' = IF MainWrites(result) THEN "write" ELSE "done"
    /\ UNCHANGED <<server, result, log, clock, files, files0, pre, pos, lat, lon,
                   counts, tags, icon, category, err>>

(* ---------------------------- write_data ---------------------------- *)

\* data['elements']
Data == result[1].elements

\* "not x" of a coordinate: None and 0 are falsy
Falsy(x) == x = None \/ x[1] = 0

\* the escaping loop over tags.keys()
EscapeTags(t) == [k \in DOMAIN t |-> IF t[k] = None THEN None ELSE Some(HtmlEscape(t[k][1]))]

\* open(VEGGIEMAP_TEMPFILE, 'w') and the two header lines
WriteOpen ==
    /\ pc = "write"
    /\ files' = [files EXCEPT !["temp"] =
                   [exists |-> TRUE, id |-> "new", markers |-> <<>>,
                    numbers |-> ZeroCounts, complete |-> FALSE,
                    size |-> CreatedLen + FunctionLen]]
    /\ counts' = ZeroCounts
    /\ pos' = 1
    /\ pc' = "loop"
    /\ UNCHANGED <<server, result, log, clock, files0, pre, lat, lon, tags, icon,
                   category, err>>

\* one pass of the loop over data['elements']
WriteElement ==
    /\ pc = "loop"
    /\ pos <= Len(Data)
    /\ LET e    == Data[pos]
           t    == EscapeTags(e.tags)
           lat1 == IF e.type = "node" THEN e.lat ELSE lat
           lon1 == IF e.type = "node" THEN e.lon ELSE lon
       IN  /\ tags' = t
           /\ IF e.type = "way" /\ e.center = None
              THEN \* None.get raises AttributeError: the with block closes the
                   \* file and the exception leaves write_data and main
                   /\ pc' = "crashed"
                   /\ err' = "AttributeError"
                   /\ lat' = lat1
                   /\ lon' = lon1
                   /\ UNCHANGED <<files, counts, pos, icon, category>>
              ELSE LET lat2 == IF e.type = "way" THEN e.center[1].lat ELSE lat1
                       lon2 == IF e.type = "way" THEN e.center[1].lon ELSE lon1
                   IN  /\ lat' = lat2
                       /\ lon' = lon2
                       /\ pos' = pos + 1
                       /\ UNCHANGED <<pc, err>>
                       /\ IF Falsy(lat2) \/ Falsy(lon2)
                          THEN UNCHANGED <<files, counts, icon, category>>
                          ELSE LET ic  == determine_icon(t)
                                   cat == CategoryOf(t)
                                   m   == [lat |-> lat2[1], lon |-> lon2[1],
                                           icon |-> ic[1], category |-> cat,
                                           typ |-> e.type, ide |-> e.id,
                                           named |-> TagHas(t, "name")]
                               IN  /\ icon' = ic
                                   /\ category' = cat
                                   /\ counts' = CountOf(counts, cat)
                                   /\ files' = [files EXCEPT
                                        !["temp"].markers = Append(@, m),
                                        !["temp"].size = @ + MarkerLen(m)]
    /\ UNCHANGED <<server, result, log, clock, files0, pre>>

\* the closing brace, the numbers statement, the end of the with block;
\* write_data returns and main calls check_data
WriteClose ==
    /\ pc = "loop"
    /\ pos > Len(Data)
    /\ files' = [files EXCEPT !["temp"].numbers = counts,
                              !["temp"].complete = TRUE,
                              !["temp"].size = @ + CloseLen + NumbersLen(counts)]
    /\ pre' = files'
    /\ pc' = "check"
    /\ UNCHANGED <<server, result, log, clock, files0, pos, lat, lon, counts, tags,
                   icon, category, err>>

(* ---------------------------- check_data ---------------------------- *)

\* the two tests on the temp file; the else branches only print
CheckTemp ==
    /\ pc = "check"
    /\ pc' = IF IsFile(files, "temp")
             THEN IF SizeOK(GetSize(files, "temp")) THEN "rename_old" ELSE "done"
             ELSE "done"
    /\ UNCHANGED <<server, result, log, clock, files, files0, pre, pos, lat, lon,
                   counts, tags, icon, category, err>>

\* os.rename(VEGGIEMAP_FILE, VEGGIEMAP_OLDFILE); FileNotFoundError without a file
RenameOld ==
    /\ pc = "rename_old"
    /\ IF IsFile(files, "active")
       THEN /\ files' = OsRename(files, "active", "old")
            /\ pc' = "rename_temp"
            /\ UNCHANGED err
       ELSE /\ pc' = "crashed"
            /\ err' = "FileNotFoundError"
            /\ UNCHANGED files
    /\ UNCHANGED <<server, result, log, clock, files0, pre, pos, lat, lon, counts,
                   tags, icon, category>>

\* os.rename(VEGGIEMAP_TEMPFILE, VEGGIEMAP_FILE)
RenameTemp ==
    /\ pc = "rename_temp"
    /\ files' = OsRename(files, "temp", "active")
    /\ pc' = "done"
    /\ UNCHANGED <<server, result, log, clock, files0, pre, pos, lat, lon, counts,
                   tags, icon, category, err>>

(* ------------------------------ inputs ------------------------------ *)

TagKeys ==
    {"cuisine", "amenity", "historic", "leisure", "shop", "tourism",
     "diet:vegan", "diet:vegetarian", "name"}

\* e.get('tags', {}) of an element without tags
NoTags == [k \in TagKeys |-> None]

NoCenter == None

Center(la, lo) == Some([lat |-> la, lon |-> lo])

Node(id, t, la, lo) ==
    [id |-> id, type |-> "node", tags |-> t, lat |-> la, lon |-> lo,
     center |-> NoCenter]

Way(id, t, c) ==
    [id |-> id, type |-> "way", tags |-> t, lat |-> None, lon |-> None,
     center |-> c]

\* the elements a response of the pipeline specification is made of
Elements ==
    { Node(1, [NoTags EXCEPT !["diet:vegan"] = Some(<<"only">>),
                              !["name"] = Some(<<"Green", "&", "Cafe">>),
                              !["amenity"] = Some(<<"cafe">>)],
              Some(52), Some(13)),
      Node(2, [NoTags EXCEPT !["diet:vegan"] = Some(<<"yes">>)], None, Some(13)),
      Node(3, [NoTags EXCEPT !["diet:vegan"] = Some(<<"limited">>)], Some(52), Some(0)),
      Node(4, NoTags, Some(48), Some(11)),
      Way(5, [NoTags EXCEPT !["diet:vegan"] = Some(<<"yes">>),
                             !["diet:vegetarian"] = Some(<<"only">>)],
             Center(Some(50), Some(8))),
      Way(6, [NoTags EXCEPT !["diet:vegan"] = Some(<<"yes">>)], NoCenter),
      Way(7, [NoTags EXCEPT !["diet:vegetarian"] = Some(<<"yes">>)],
             Center(Some(50), None)) }

SeqsUpTo(S, n) == UNION {[1..k -> S] : k \in 0..n}

\* the response documents of the pipeline specification
MainDocs == {[elements |-> s] : s \in SeqsUpTo(Elements, MaxElems)}

\* the response documents of the fetch specification
FetchDocs == {[elements |-> s] : s \in SeqsUpTo({Node(4, NoTags, Some(48), Some(11))}, 1)}

AllStatuses == {200, 400, 429, 504, 500}

MainStatuses == {200, 429}

\* the three paths before a run of the pipeline
MainLayouts ==
    { [p \in Paths |-> CASE p = "active" -> a [] p = "old" -> o [] OTHER -> t] :
        a \in {Absent, Artifact("A", 5000, TRUE)},
        o \in {Absent, Artifact("B", 4000, TRUE)},
        t \in {Absent, Artifact("T", 100, FALSE)} }

\* the three paths before a call of check_data on its own
CheckLayouts ==
    { [p \in Paths |-> CASE p = "active" -> a [] p = "old" -> o [] OTHER -> t] :
        a \in {Absent, Artifact("A", 5000, TRUE)},
        o \in {Absent, Artifact("B", 4000, TRUE)},
        t \in {Absent} \cup {Artifact("T", n, c) : n \in 0..MaxSize, c \in BOOLEAN} }

\* the attribute sets handed to the two classifiers
ClassifyTags ==
    { [NoTags EXCEPT !["cuisine"] = cu, !["amenity"] = am, !["shop"] = sh,
                     !["diet:vegan"] = vn, !["diet:vegetarian"] = vt] :
        cu \in {None, Some(<<>>), Some(<<"pizza">>), Some(<<"pizza", ";", "kebab">>),
                Some(<<"kebab", ";", "pizza">>), Some(<<";", "pizza">>)},
        am \in {None, Some(<<"bar">>), Some(<<"bar", ";", "cafe">>), Some(<<"cafe">>)},
        sh \in {None, Some(<<"wine">>)},
        vn \in {None, Some(<<"only">>), Some(<<"yes">>), Some(<<"limited">>),
                Some(<<"no">>)},
        vt \in {None, Some(<<"only">>), Some(<<"yes">>)} }

(* -------------------------- specifications -------------------------- *)

InitWith(p, layouts, tagsets) ==
    /\ pc = p
    /\ server = 0
    /\ result = None
    /\ log = <<>>
    /\ clock = 0
    /\ files \in layouts
    /\ files0 = files
    /\ pre = files
    /\ pos = 0
    /\ lat = None
    /\ lon = None
    /\ counts = ZeroCounts
    /\ tags \in tagsets
    /\ icon = <<"unset", "unset">>
    /\ category = "unset"
    /\ err = "none"

\* main(): the whole pipeline over every layout of the three paths
Init == InitWith("fetch", MainLayouts, {NoTags})

Next ==
    \/ Request(MainStatuses, MainDocs)
    \/ Return
    \/ MainBranch
    \/ WriteOpen
    \/ WriteElement
    \/ WriteClose
    \/ CheckTemp
    \/ RenameOld
    \/ RenameTemp

Spec == Init /\ [][Next]_vars

\* get_data_osm() on its own, over every status of every endpoint
InitFetch == InitWith("fetch", {[p \in Paths |-> Absent]}, {NoTags})

NextFetch == Request(AllStatuses, FetchDocs) \/ Return

SpecFetch == InitFetch /\ [][NextFetch]_vars

\* check_data() on its own, over every layout and temp file size
InitCheck == InitWith("check", CheckLayouts, {NoTags})

NextCheck == CheckTemp \/ RenameOld \/ RenameTemp

SpecCheck == InitCheck /\ [][NextCheck]_vars

\* the two classifiers applied to one attribute set, as in the loop body
Classify ==
    /\ pc = "classify"
    /\ icon' = determine_icon(tags)
    /\ category' = CategoryOf(tags)
    /\ counts' = CountOf(counts, CategoryOf(tags))
    /\ pc' = "classified"
    /\ UNCHANGED <<server, result, log, clock, files, files0, pre, pos, lat, lon,
                   tags, err>>

InitClassify == InitWith("classify", {[p \in Paths |-> Absent]}, ClassifyTags)

NextClassify == Classify

SpecClassify == InitClassify /\ [][NextClassify]_vars

(* ------------------------------ claims ------------------------------ *)

\* every endpoint of the list was requested and none answered 200
AllFailed ==
    /\ Len(log) = NumServers
    /\ \A i \in 1..Len(log) : log[i].status # 200

\* the run of main is over, normally or by an uncaught exception
RunEnded == pc \in {"done", "crashed"}

\* the file this run wrote, wherever it is now
NewPaths == {p \in Paths : files[p].exists /\ files[p].id = "new"}

NewMarkers == IF NewPaths = {} THEN <<>> ELSE files[CHOOSE p \in NewPaths : TRUE].markers

\* the sum of the five counters
SumCounts(n) ==
    n["vegan_only"] + n["vegetarian_only"] + n["vegan_friendly"]
      + n["vegan_limited"] + n["vegetarian_friendly"]

\* a record whose own two coordinate components are present and not zero
OwnCoords(e) ==
    IF e.type = "node"
    THEN e.lat # None /\ e.lat[1] # 0 /\ e.lon # None /\ e.lon[1] # 0
    ELSE /\ e.center # None
         /\ e.center[1].lat # None /\ e.center[1].lat[1] # 0
         /\ e.center[1].lon # None /\ e.center[1].lon[1] # 0

NumOwnCoords == Cardinality({i \in 1..Len(Data) : OwnCoords(Data[i])})

CenterlessWay(e) == e.type = "way" /\ e.center = None

\* C1: with an active artifact present before the run, the active path holds at
\* every step of the run a complete artifact, the one from before the run or the
\* one this run generated, never a partial one and never nothing.
C1_ActiveAlwaysWhole ==
    files0["active"].exists =>
        /\ files["active"].exists
        /\ files["active"].complete
        /\ files["active"] = files0["active"] \/ files["active"].id = "new"

\* C2: when all endpoints answered with a status other than 200, the result is
\* None, write_data and check_data are never entered, and the three paths hold
\* what they held before the run.
C2_AllFailedNoWrite ==
    AllFailed =>
        /\ result = None
        /\ pc \in {"fetch", "fetched", "done"}
        /\ files = files0

C2_Witness ==
    /\ pc = "done"
    /\ AllFailed
    /\ files0["active"].exists
    /\ files0["temp"].exists

\* C3: when the temp file is missing or not larger than 250 bytes at the call of
\* check_data, no path changes: active, previous and temp stay as they were.
C3_InvalidTempNoRename ==
    (~pre["temp"].exists \/ pre["temp"].size <= 250) =>
        /\ files = pre
        /\ pc \in {"check", "done"}

C3_Witness ==
    /\ pc = "done"
    /\ pre["temp"].exists
    /\ pre["temp"].size = 250
    /\ pre["active"].exists
    /\ files = pre

\* C4: endpoints are requested in list order, each at most once; a 200 answer is
\* the last request of the run and the result is the document parsed from it.
C4_ListOrderStopAtFirst200 ==
    /\ Len(log) <= Len(SERVERS)
    /\ \A i \in 1..Len(log) : log[i].url = SERVERS[i]
    /\ \A i \in 1..Len(log) :
         log[i].status = 200 =>
             /\ i = Len(log)
             /\ result = <<log[i].data.json>>
    /\ (\A i \in 1..Len(log) : log[i].status # 200) => result = None

C4_Witness ==
    /\ pc = "fetched"
    /\ Len(log) = 3
    /\ log[1].status = 504
    /\ log[3].status = 200
    /\ result = <<log[3].data.json>>
    /\ result[1].elements # <<>>

\* the cooldown the claim names for a status
ClaimedCooldown(status) ==
    IF status = 400 THEN 5
    ELSE IF status = 429 THEN 60
    ELSE IF status = 504 THEN 600
    ELSE 0

\* C5: between a request answered with a status other than 200 and the next
\* request, the cooldown of that status has elapsed; with 429 from the first
\* endpoint and 200 from the second, the result is the second one's document
\* and the second request is made no earlier than 60 time units into the run.
C5_CooldownElapsed ==
    /\ \A i \in 1..(Len(log) - 1) :
         log[i + 1].at - log[i].at >= ClaimedCooldown(log[i].status)
    /\ (Len(log) >= 2 /\ log[1].status = 429 /\ log[2].status = 200) =>
         /\ result = <<log[2].data.json>>
         /\ log[2].at >= 60

C5_Witness ==
    /\ pc = "fetched"
    /\ Len(log) = 2
    /\ log[1].status = 429
    /\ log[2].status = 200
    /\ log[2].at = 60

DietVegan == IF tags["diet:vegan"] = None THEN <<>> ELSE tags["diet:vegan"][1]

DietVegetarian ==
    IF tags["diet:vegetarian"] = None THEN <<>> ELSE tags["diet:vegetarian"][1]

\* C6: every attribute set gets exactly one of the five categories, exactly one
\* counter is incremented, and the category follows the decision order.
C6_CategoryTotalExclusiveOrdered ==
    pc = "classified" =>
        /\ category \in Categories
        /\ counts[category] = 1
        /\ \A c \in Categories \ {category} : counts[c] = 0
        /\ DietVegan = <<"only">> => category = "vegan_only"
        /\ (DietVegan = <<"yes">> /\ DietVegetarian = <<"only">>)
             => category = "vegetarian_only"
        /\ (DietVegan = <<"yes">> /\ DietVegetarian # <<"only">>)
             => category = "vegan_friendly"
        /\ DietVegan = <<"limited">> => category = "vegan_limited"
        /\ DietVegan \notin {<<"only">>, <<"yes">>, <<"limited">>}
             => category = "vegetarian_friendly"

C6_Witness ==
    /\ pc = "classified"
    /\ DietVegan = <<"yes">>
    /\ DietVegetarian = <<"only">>
    /\ category = "vegetarian_only"

\* the text of a value before its first ";"
BeforeSemicolon(s) ==
    LET cut == {i \in 1..Len(s) : s[i] = ";"}
    IN  IF cut = {} THEN s
        ELSE SubSeq(s, 1, (CHOOSE i \in cut : \A j \in cut : i <= j) - 1)

\* rule i of the table matches the attribute set
RuleMatches(t, i) ==
    LET attr  == ICON_MAPPING[i].kv[1]
        value == ICON_MAPPING[i].kv[3]
    IN  /\ t[attr] # None
        /\ BeforeSemicolon(t[attr][1]) = <<value>>

MatchingRules(t) == {i \in 1..Len(ICON_MAPPING) : RuleMatches(t, i)}

\* C7: the icon is that of the first rule in table order, cuisine:pizza being
\* rule 1, whose attribute is present with a value equal to the rule's value
\* up to the first ";"; without a matching rule it is the default icon with an
\* empty glyph.
C7_FirstMatchingRuleWins ==
    /\ ICON_MAPPING[1].kv = <<"cuisine", ":", "pizza">>
    /\ pc = "classified" =>
         IF MatchingRules(tags) = {}
         THEN icon = <<"maki_star-stroked", "">>
         ELSE icon = ICON_MAPPING[CHOOSE i \in MatchingRules(tags) :
                                    \A j \in MatchingRules(tags) : i <= j].icon

C7_Witness ==
    /\ pc = "classified"
    /\ tags["cuisine"] = <<(<<"pizza", ";", "kebab">>)>>
    /\ tags["amenity"] = <<(<<"bar">>)>>
    /\ icon = <<"maki_restaurant-pizza", "U1F355">>

\* C8: at the end of a run that wrote, the marker statements written, the sum
\* of the five counters and the records with own non-zero coordinates are
\* equal in number.
C8_MarkersEqualOwnCoords ==
    (RunEnded /\ result # None) =>
        /\ Len(NewMarkers) = SumCounts(counts)
        /\ Len(NewMarkers) = NumOwnCoords

\* C9: after check_data on a temp file larger than the threshold, whatever the
\* layout before, the active path holds the temp file's content, the previous
\* path holds what the active path held, and the temp path is empty.
C9_RotationEveryLayout ==
    (result # None /\ pc \in {"done", "crashed"} /\ err # "AttributeError"
       /\ pre["temp"].exists /\ pre["temp"].size > 250) =>
        /\ files["active"] = pre["temp"]
        /\ files["old"] = pre["active"]
        /\ ~files["temp"].exists

\* C10: a way without a center does not end the run with an exception: every
\* other record with coordinates is written and check_data is reached.
C10_CenterlessWaySkipped ==
    (RunEnded /\ result # None /\ \E i \in 1..Len(Data) : CenterlessWay(Data[i])) =>
        /\ err # "AttributeError"
        /\ Len(NewMarkers) = NumOwnCoords
        /\ pre["temp"].id = "new"

====
